---------------------------- MODULE Spec2Model ----------------------------
(***************************************************************************)
(* WhatsApp chat transcript parser and aggregation engine.                 *)
(*                                                                         *)
(* Text is modelled character by character: a string is a sequence of      *)
(* one-character strings.  Three characters outside ASCII are written by   *)
(* their code point: "U1F642" (an emoji), "U2013" (en dash) and "U202F"    *)
(* (narrow no-break space).  Regular expressions are translated as the     *)
(* backtracking matcher evaluates them: alternatives in priority order,    *)
(* the first complete match wins.                                          *)
(***************************************************************************)
EXTENDS Integers, Sequences, FiniteSets, TLC

\* ------------------------------------------------------------------------
\* Characters and strings
\* ------------------------------------------------------------------------

Digits == <<"0", "1", "2", "3", "4", "5", "6", "7", "8", "9">>

IsDigit(c) == \E i \in DOMAIN Digits : Digits[i] = c

\* int() of one digit character.
DigitVal(c) == (CHOOSE i \in DOMAIN Digits : Digits[i] = c) - 1

UpperCase == <<"A", "B", "C", "D", "E", "F", "G", "H", "I", "J", "K", "L", "M",
               "N", "O", "P", "Q", "R", "S", "T", "U", "V", "W", "X", "Y", "Z">>

LowerCase == <<"a", "b", "c", "d", "e", "f", "g", "h", "i", "j", "k", "l", "m",
               "n", "o", "p", "q", "r", "s", "t", "u", "v", "w", "x", "y", "z">>

\* str.lower() of one character (what re.IGNORECASE compares).
Lower(c) ==
    IF \E i \in DOMAIN UpperCase : UpperCase[i] = c
    THEN LowerCase[CHOOSE i \in DOMAIN UpperCase : UpperCase[i] = c]
    ELSE c

\* Characters the regex class \s and str.strip() treat as whitespace.
IsSpace(c) == c \in {" ", "U202F"}

\* The character at position p, or "" past the end of the string.
At(s, p) == IF p \in DOMAIN s THEN s[p] ELSE ""

DigitsAt(s, p, n) == \A k \in 0..(n - 1) : IsDigit(At(s, p + k))

RECURSIVE IntOf(_)
\* int() of a string of digits.
IntOf(s) ==
    IF s = <<>> THEN 0
    ELSE 10 * IntOf(SubSeq(s, 1, Len(s) - 1)) + DigitVal(s[Len(s)])

RECURSIVE Strip(_)
\* str.strip()
Strip(s) ==
    IF s = <<>> THEN s
    ELSE IF IsSpace(s[1]) THEN Strip(Tail(s))
    ELSE IF IsSpace(s[Len(s)]) THEN Strip(SubSeq(s, 1, Len(s) - 1))
    ELSE s

\* `sub in s`
Contains(s, sub) ==
    \E p \in 1..(Len(s) - Len(sub) + 1) : SubSeq(s, p, p + Len(sub) - 1) = sub

\* re.search(".*sub.*", s, re.IGNORECASE) from position p on.
ContainsFromNoCase(s, sub, p) ==
    \E q \in p..(Len(s) - Len(sub) + 1) :
        \A k \in 1..Len(sub) : Lower(s[q + k - 1]) = Lower(sub[k])

\* re.search(".*a.*b.*", s, re.IGNORECASE): a, and b somewhere after it.
ContainsThenNoCase(s, a, b) ==
    \E q \in 1..(Len(s) - Len(a) + 1) :
        /\ \A k \in 1..Len(a) : Lower(s[q + k - 1]) = Lower(a[k])
        /\ ContainsFromNoCase(s, b, q + Len(a))

\* A regex that did not match; a match is a record with ok = TRUE.
NoMatch == [ok |-> FALSE]

\* F(v) with v evaluated once: an operator's argument is an expression, which
\* the model checker may evaluate again at each use; a bound variable is a
\* value.
Apply(F(_), v) == CHOOSE x \in {F(y) : y \in {v}} : TRUE

\* The match a if it is one, else b: the order in which the backtracking
\* matcher tries two alternatives.
OrElse(a, b) == Apply(LAMBDA r : IF r.ok THEN r ELSE b, a)

RECURSIVE FirstOf(_, _)
\* The alternatives of a quantifier or group in the order the regex engine
\* tries them: the first of F(xs[1]), F(xs[2]), ... that matches.
FirstOf(F(_), xs) ==
    IF xs = <<>> THEN NoMatch
    ELSE OrElse(F(Head(xs)), FirstOf(F, Tail(xs)))

\* ------------------------------------------------------------------------
\* chat_pattern:
\*   ^(\d{1,2}[-/\.\s]\d{1,2}[-/\.\s]\d{2,4}),?\s?
\*    (\d{1,2}:\d{2}(\s?[APMapm]{2})?)?\s?[-\u2013]\s(.*?):\s(.*)
\* A group that did not take part in the match (Python's None) is <<>>.
\* ------------------------------------------------------------------------

IsDateSep(c) == c \in {"-", "/", "."} \/ IsSpace(c)

IsAmPmChar(c) == c \in {"A", "P", "M", "a", "p", "m"}

\* The sender group made greedy, (.*):\s(.*): the sender ends at the last
\* colon that is followed by whitespace.
MatchUserGreedy(s, p, time) ==
    LET ends == {q \in p..Len(s) : s[q] = ":" /\ IsSpace(At(s, q + 1))}
    IN  IF ends = {} THEN NoMatch
        ELSE LET q == CHOOSE e \in ends : \A f \in ends : e >= f
             IN  [ok |-> TRUE, time |-> time,
                  user |-> SubSeq(s, p, q - 1),
                  message |-> SubSeq(s, q + 2, Len(s))]

\* (.*?):\s(.*) from position p: the sender ends at the first colon that is
\* followed by whitespace.
MatchUser(s, p, time) ==
    LET ends == {q \in p..Len(s) : s[q] = ":" /\ IsSpace(At(s, q + 1))}
    IN  IF ends = {} THEN NoMatch
        ELSE LET q == CHOOSE e \in ends : \A f \in ends : e <= f
             IN  [ok |-> TRUE, time |-> time,
                  user |-> SubSeq(s, p, q - 1),
                  message |-> SubSeq(s, q + 2, Len(s))]

\* [-\u2013]\s
MatchDash(s, p, time) ==
    IF At(s, p) \in {"-", "U2013"} /\ IsSpace(At(s, p + 1))
    THEN MatchUser(s, p + 2, time)
    ELSE NoMatch

\* \s? before the dash
MatchSpace2(s, p, time) ==
    FirstOf(LAMBDA k : IF k = 1 /\ ~IsSpace(At(s, p)) THEN NoMatch
                       ELSE MatchDash(s, p + k, time),
            <<1, 0>>)

\* (\s?[APMapm]{2})? at q, closing a time group that started at p: k is the
\* length of the optional group, 3 with the whitespace, 2 without, 0 if absent.
MatchAmPm(s, p, q) ==
    FirstOf(LAMBDA k :
                IF \/ k = 3 /\ ~IsSpace(At(s, q))
                   \/ k > 0 /\ ~(IsAmPmChar(At(s, q + k - 2)) /\ IsAmPmChar(At(s, q + k - 1)))
                THEN NoMatch
                ELSE MatchSpace2(s, q + k, SubSeq(s, p, q + k - 1)),
            <<3, 2, 0>>)

\* \d{h}:\d{2} at p
MatchClock(s, p, h) ==
    IF DigitsAt(s, p, h) /\ At(s, p + h) = ":" /\ DigitsAt(s, p + h + 1, 2)
    THEN MatchAmPm(s, p, p + h + 3)
    ELSE NoMatch

\* (\d{1,2}:\d{2}(\s?[APMapm]{2})?)? : h is the number of hour digits, 0 when
\* the time group is absent.
MatchTime(s, p) ==
    FirstOf(LAMBDA h : IF h = 0 THEN MatchSpace2(s, p, <<>>) ELSE MatchClock(s, p, h),
            <<2, 1, 0>>)

\* \s? after the date
MatchSpace1(s, p) ==
    FirstOf(LAMBDA k : IF k = 1 /\ ~IsSpace(At(s, p)) THEN NoMatch
                       ELSE MatchTime(s, p + k),
            <<1, 0>>)

\* ,?
MatchComma(s, p) ==
    FirstOf(LAMBDA k : IF k = 1 /\ At(s, p) # "," THEN NoMatch
                       ELSE MatchSpace1(s, p + k),
            <<1, 0>>)

\* \d{y} closing the date group, then the rest of the pattern
MatchYear(s, p, y) ==
    IF DigitsAt(s, p, y)
    THEN Apply(LAMBDA r :
                   IF r.ok
                   THEN [ok |-> TRUE, date |-> SubSeq(s, 1, p + y - 1), time |-> r.time,
                         user |-> r.user, message |-> r.message]
                   ELSE NoMatch,
               MatchComma(s, p + y))
    ELSE NoMatch

\* [-/\.\s]\d{2,4}
MatchYearPart(s, p) ==
    IF IsDateSep(At(s, p))
    THEN FirstOf(LAMBDA y : MatchYear(s, p + 1, y), <<4, 3, 2>>)
    ELSE NoMatch

\* [-/\.\s]\d{1,2}
MatchMonthPart(s, p) ==
    IF IsDateSep(At(s, p))
    THEN FirstOf(LAMBDA n : IF DigitsAt(s, p + 1, n) THEN MatchYearPart(s, p + 1 + n)
                            ELSE NoMatch,
                 <<2, 1>>)
    ELSE NoMatch

\* chat_pattern.match(line): the groups date, time, user, message. The date
\* group starts with \d{1,2}.
ChatPatternMatch(line) ==
    FirstOf(LAMBDA n : IF DigitsAt(line, 1, n) THEN MatchMonthPart(line, n + 1)
                       ELSE NoMatch,
            <<2, 1>>)

\* ------------------------------------------------------------------------
\* datetime: an instant is [year, month, day, hour, minute]
\* ------------------------------------------------------------------------

IsLeap(y) == (y % 4 = 0) /\ ((y % 100 # 0) \/ (y % 400 = 0))

DaysInMonthTable == <<31, 28, 31, 30, 31, 30, 31, 31, 30, 31, 30, 31>>

DaysInMonth(y, m) == IF m = 2 /\ IsLeap(y) THEN 29 ELSE DaysInMonthTable[m]

\* datetime(year, month, day, hour, minute) raises ValueError outside these.
ValidDateTime(y, m, d, H, M) ==
    /\ y \in 1..9999
    /\ m \in 1..12
    /\ d \in 1..DaysInMonth(y, m)
    /\ H \in 0..23
    /\ M \in 0..59

RECURSIVE DaysBeforeMonth(_, _)
DaysBeforeMonth(y, m) ==
    IF m = 1 THEN 0 ELSE DaysBeforeMonth(y, m - 1) + DaysInMonth(y, m - 1)

\* date.toordinal()
ToOrdinal(ts) ==
    LET y == ts.year - 1
    IN  y * 365 + (y \div 4) - (y \div 100) + (y \div 400)
        + DaysBeforeMonth(ts.year, ts.month) + ts.day

\* Minutes since the start of 0001-01-01: every instant has second = 0, so
\* (a - b).total_seconds() = 60 * (MinuteOf(a) - MinuteOf(b)).
MinuteOf(ts) == (ToOrdinal(ts) * 24 + ts.hour) * 60 + ts.minute

\* datetime.date()
DateOf(ts) == [year |-> ts.year, month |-> ts.month, day |-> ts.day]

\* ------------------------------------------------------------------------
\* datetime.strptime (CPython _strptime): the format becomes a regex, one
\* group per directive, which must match at the start of the string and
\* leave nothing unconverted.
\* ------------------------------------------------------------------------

\* The alternatives of one directive at position p, in the regex's order,
\* each as [len, val]:
\*   %d  3[0-1]|[1-2]\d|0[1-9]|[1-9]| [1-9]     %m, %I  1[0-2]|0[1-9]|[1-9]
\*   %H  2[0-3]|[0-1]\d|\d                      %M      [0-5]\d|\d
\*   %y  \d\d      %Y  \d\d\d\d                 %p      am|pm (IGNORECASE)
DirectiveAlts(dir, s, p) ==
    LET two == IF DigitsAt(s, p, 2) THEN IntOf(SubSeq(s, p, p + 1)) ELSE -1
        one == IF DigitsAt(s, p, 1) THEN DigitVal(s[p]) ELSE -1
        Two(lo, hi) == IF two \in lo..hi THEN << [len |-> 2, val |-> two] >> ELSE <<>>
        One(lo, hi) == IF one \in lo..hi THEN << [len |-> 1, val |-> one] >> ELSE <<>>
    IN  CASE dir = "%d" ->
               Two(1, 31) \o One(1, 9) \o
               (IF At(s, p) = " " /\ DigitsAt(s, p + 1, 1) /\ DigitVal(s[p + 1]) >= 1
                THEN << [len |-> 2, val |-> DigitVal(s[p + 1])] >> ELSE <<>>)
          [] dir \in {"%m", "%I"} -> Two(1, 12) \o One(1, 9)
          [] dir = "%H" -> Two(0, 23) \o One(0, 9)
          [] dir = "%M" -> Two(0, 59) \o One(0, 9)
          [] dir = "%y" -> Two(0, 99)
          [] dir = "%Y" ->
               IF DigitsAt(s, p, 4)
               THEN << [len |-> 4, val |-> IntOf(SubSeq(s, p, p + 3))] >> ELSE <<>>
          [] dir = "%p" ->
               IF Lower(At(s, p)) \in {"a", "p"} /\ Lower(At(s, p + 1)) = "m"
               THEN << [len |-> 2, val |-> IF Lower(s[p]) = "a" THEN 0 ELSE 1] >>
               ELSE <<>>

IsDirective(item) == item \in {"%d", "%m", "%y", "%Y", "%H", "%I", "%M", "%p"}

RECURSIVE SpaceRun(_, _)
\* The length of the run of whitespace at p.
SpaceRun(s, p) == IF IsSpace(At(s, p)) THEN 1 + SpaceRun(s, p + 1) ELSE 0

RECURSIVE MatchFormat(_, _, _, _, _)
RECURSIVE TryAlts(_, _, _, _, _, _)
\* format_regex.match(s) continued at position p with item i of the format;
\* found holds the groups matched so far.
MatchFormat(s, p, fmt, i, found) ==
    IF i > Len(fmt) THEN [ok |-> TRUE, end |-> p, found |-> found]
    ELSE IF IsDirective(fmt[i])
         THEN Apply(LAMBDA alts : TryAlts(s, p, fmt, i, found, alts),
                    DirectiveAlts(fmt[i], s, p))
    ELSE IF fmt[i] = " "
         \* \s+ ; no later item of these formats can start with whitespace
         THEN IF SpaceRun(s, p) >= 1
              THEN Apply(LAMBDA q : MatchFormat(s, q, fmt, i + 1, found),
                         p + SpaceRun(s, p))
              ELSE NoMatch
    ELSE IF At(s, p) = fmt[i]
         THEN Apply(LAMBDA q : MatchFormat(s, q, fmt, i + 1, found), p + 1)
    ELSE NoMatch

\* The alternatives of the directive at item i, in order: the first with
\* which the rest of the format matches.
TryAlts(s, p, fmt, i, found, alts) ==
    IF alts = <<>> THEN NoMatch
    ELSE OrElse(Apply(LAMBDA st : MatchFormat(s, st.p, fmt, i + 1, st.found),
                      [p |-> p + alts[1].len,
                       found |-> [found EXCEPT ![fmt[i]] = alts[1].val]]),
                TryAlts(s, p, fmt, i, found, Tail(alts)))

\* The groups before the match: -1 is a directive the format does not have.
NoGroups == [d \in {"%d", "%m", "%y", "%Y", "%H", "%I", "%M", "%p"} |-> -1]

\* %y: [00, 68] is in the century 2000, [69, 99] in the century 1900.
TwoDigitYear(y) == IF y <= 68 THEN y + 2000 ELSE y + 1900

\* %I with %p: 12 AM is hour 0, PM adds 12 except to 12.
HourOf12(I, p) ==
    IF p = 1 THEN (IF I # 12 THEN I + 12 ELSE I)
    ELSE (IF I = 12 THEN 0 ELSE I)

\* A ValueError
ValueError == [ok |-> FALSE, error |-> "ValueError"]

\* The datetime of the groups of a match: ValueError when the match left
\* part of the string unconverted or the fields are no date and time.
DatetimeOfMatch(r, len) ==
    IF ~r.ok THEN ValueError
    ELSE IF r.end # len + 1 THEN ValueError
    ELSE LET g == r.found
             year == IF g["%y"] # -1 THEN TwoDigitYear(g["%y"])
                     ELSE IF g["%Y"] # -1 THEN g["%Y"] ELSE 1900
             month == IF g["%m"] # -1 THEN g["%m"] ELSE 1
             day == IF g["%d"] # -1 THEN g["%d"] ELSE 1
             hour == IF g["%I"] # -1 THEN HourOf12(g["%I"], g["%p"])
                     ELSE IF g["%H"] # -1 THEN g["%H"] ELSE 0
             minute == IF g["%M"] # -1 THEN g["%M"] ELSE 0
         IN  IF ValidDateTime(year, month, day, hour, minute)
             THEN [ok |-> TRUE,
                   ts |-> [year |-> year, month |-> month, day |-> day,
                           hour |-> hour, minute |-> minute]]
             ELSE ValueError

\* datetime.strptime(s, fmt): [ok |-> TRUE, ts |-> instant] or ValueError.
Strptime(s, fmt) ==
    Apply(LAMBDA r : DatetimeOfMatch(r, Len(s)), MatchFormat(s, 1, fmt, 1, NoGroups))

\* ------------------------------------------------------------------------
\* parse_datetime
\* ------------------------------------------------------------------------

\* The programs of the repository that parse a transcript.
SentiProg == "WA_prog_senti_distribution"
V1FlaskProg == "WA_prog_v1_flask"
FlaskProg == "whatsapp_flask_python"
Programs == {SentiProg, V1FlaskProg, FlaskProg}

\* formats of WA_prog_senti_distribution.py and WA_prog_v1_flask.py
FormatsStrict == <<
    <<"%d","/","%m","/","%Y"," ","%I",":","%M"," ","%p">>,
    <<"%m","/","%d","/","%Y"," ","%I",":","%M"," ","%p">>,
    <<"%d","/","%m","/","%y"," ","%I",":","%M"," ","%p">>,
    <<"%m","/","%d","/","%y"," ","%I",":","%M"," ","%p">>,
    <<"%Y","/","%m","/","%d"," ","%I",":","%M"," ","%p">>,
    <<"%y","/","%m","/","%d"," ","%I",":","%M"," ","%p">>,
    <<"%d","/","%m","/","%Y"," ","%H",":","%M">>,
    <<"%m","/","%d","/","%Y"," ","%H",":","%M">>,
    <<"%d","/","%m","/","%y"," ","%H",":","%M">>,
    <<"%m","/","%d","/","%y"," ","%H",":","%M">>,
    <<"%Y","/","%m","/","%d"," ","%H",":","%M">>,
    <<"%y","/","%m","/","%d"," ","%H",":","%M">>,
    <<"%d","-","%m","-","%Y"," ","%I",":","%M"," ","%p">>,
    <<"%m","-","%d","-","%Y"," ","%I",":","%M"," ","%p">>,
    <<"%d","-","%m","-","%y"," ","%I",":","%M"," ","%p">>,
    <<"%m","-","%d","-","%y"," ","%I",":","%M"," ","%p">>,
    <<"%d","-","%m","-","%Y"," ","%H",":","%M">>,
    <<"%m","-","%d","-","%Y"," ","%H",":","%M">>,
    <<"%d","-","%m","-","%y"," ","%H",":","%M">>,
    <<"%m","-","%d","-","%y"," ","%H",":","%M">> >>

\* formats of whatsapp_flask_python.py
FormatsLenient == <<
    <<"%d","/","%m","/","%Y"," ","%I",":","%M"," ","%p">>,
    <<"%m","/","%d","/","%Y"," ","%I",":","%M"," ","%p">>,
    <<"%d","/","%m","/","%y"," ","%I",":","%M"," ","%p">>,
    <<"%m","/","%d","/","%y"," ","%I",":","%M"," ","%p">>,
    <<"%d","-","%m","-","%Y"," ","%I",":","%M"," ","%p">>,
    <<"%m","-","%d","-","%Y"," ","%I",":","%M"," ","%p">>,
    <<"%d","-","%m","-","%y"," ","%I",":","%M"," ","%p">>,
    <<"%m","-","%d","-","%y"," ","%I",":","%M"," ","%p">>,
    <<"%d","/","%m","/","%Y"," ","%H",":","%M">>,
    <<"%m","/","%d","/","%Y"," ","%H",":","%M">>,
    <<"%d","/","%m","/","%y"," ","%H",":","%M">>,
    <<"%m","/","%d","/","%y"," ","%H",":","%M">> >>

\* The lists with day and month exchanged in every layout, which puts each
\* month-first layout before its day-first twin.
FormatsMonthFirst(p) ==
    LET formats == IF p = FlaskProg THEN FormatsLenient ELSE FormatsStrict
    IN  [i \in DOMAIN formats |->
            [k \in DOMAIN formats[i] |->
                IF formats[i][k] = "%d" THEN "%m"
                ELSE IF formats[i][k] = "%m" THEN "%d"
                ELSE formats[i][k]]]

\* The format list of parse_datetime in program p.
Formats(p) == IF p = FlaskProg THEN FormatsLenient ELSE FormatsStrict

\* date_str.replace("\u202f", " ")
ReplaceNarrowSpace(s) == [k \in DOMAIN s |-> IF s[k] = "U202F" THEN " " ELSE s[k]]

RECURSIVE CollapseSpaces(_)
\* re.sub(r"\s+", " ", s)
CollapseSpaces(s) ==
    IF s = <<>> THEN s
    ELSE IF IsSpace(s[1])
         THEN <<" ">> \o CollapseSpaces(SubSeq(s, 1 + SpaceRun(s, 1), Len(s)))
    ELSE <<s[1]>> \o CollapseSpaces(Tail(s))

NormalizeDateStr(s) == CollapseSpaces(Strip(ReplaceNarrowSpace(s)))

RECURSIVE TryFormatsLast(_, _, _)
\* The loop without its early return: the last format that fits wins.
TryFormatsLast(s, formats, i) ==
    IF i > Len(formats) THEN ValueError
    ELSE OrElse(TryFormatsLast(s, formats, i + 1), Strptime(s, formats[i]))

RECURSIVE TryFormats(_, _, _)
\* for fmt in formats: try: return datetime.strptime(date_str, fmt)
TryFormats(s, formats, i) ==
    IF i > Len(formats) THEN ValueError
    ELSE OrElse(Strptime(s, formats[i]), TryFormats(s, formats, i + 1))

\* parse_datetime(date_str): [ok |-> TRUE, ts |-> instant]; when no format
\* fits, the strict programs raise ValueError and whatsapp_flask_python
\* returns None.
ParseDatetime(p, date_str) ==
    IF date_str = <<>> THEN [ok |-> FALSE, error |-> "None"]
    ELSE Apply(LAMBDA r : IF r.ok THEN r
                          ELSE IF p = FlaskProg THEN [ok |-> FALSE, error |-> "None"]
                          ELSE ValueError,
               Apply(LAMBDA s : TryFormats(s, Formats(p), 1), NormalizeDateStr(date_str)))

\* ------------------------------------------------------------------------
\* is_system_message
\* ------------------------------------------------------------------------

\* system_patterns: r".*a.*" when b is empty, r".*a.*b.*" otherwise.
\* WA_prog_senti_distribution.py and WA_prog_v1_flask.py
SystemPatternsStrict == <<
    [a |-> <<"M","e","s","s","a","g","e","s"," ","t","o"," ","t","h","i","s"," ","g","r","o","u","p"," ","a","r","e"," ","n","o","w"," ","s","e","c","u","r","e","d"," ","w","i","t","h"," ","e","n","d","-","t","o","-","e","n","d"," ","e","n","c","r","y","p","t","i","o","n">>,
     b |-> <<>>],
    [a |-> <<"c","r","e","a","t","e","d"," ","g","r","o","u","p">>,
     b |-> <<>>],
    [a |-> <<"c","h","a","n","g","e","d"," ","t","h","i","s"," ","g","r","o","u","p","'","s">>,
     b |-> <<>>],
    [a |-> <<"l","e","f","t"," ","t","h","e"," ","g","r","o","u","p">>,
     b |-> <<>>],
    [a |-> <<"a","d","d","e","d">>,
     b |-> <<"t","o"," ","t","h","e"," ","g","r","o","u","p">>],
    [a |-> <<"r","e","m","o","v","e","d">>,
     b |-> <<"f","r","o","m"," ","t","h","e"," ","g","r","o","u","p">>],
    [a |-> <<"c","h","a","n","g","e","d"," ","t","h","e"," ","s","u","b","j","e","c","t"," ","t","o">>,
     b |-> <<>>],
    [a |-> <<"c","h","a","n","g","e","d"," ","t","h","e"," ","g","r","o","u","p"," ","d","e","s","c","r","i","p","t","i","o","n">>,
     b |-> <<>>],
    [a |-> <<"d","e","l","e","t","e","d"," ","t","h","i","s"," ","m","e","s","s","a","g","e">>,
     b |-> <<>>],
    [a |-> <<"s","t","a","r","t","e","d"," ","a"," ","c","a","l","l">>,
     b |-> <<>>],
    [a |-> <<"e","n","d","e","d"," ","t","h","e"," ","c","a","l","l">>,
     b |-> <<>>] >>

\* whatsapp_flask_python.py
SystemPatternsLenient == <<
    [a |-> <<"M","e","s","s","a","g","e","s"," ","t","o"," ","t","h","i","s"," ","g","r","o","u","p"," ","a","r","e"," ","n","o","w"," ","s","e","c","u","r","e","d">>,
     b |-> <<>>],
    [a |-> <<"c","r","e","a","t","e","d"," ","g","r","o","u","p">>,
     b |-> <<>>],
    [a |-> <<"l","e","f","t"," ","t","h","e"," ","g","r","o","u","p">>,
     b |-> <<>>],
    [a |-> <<"a","d","d","e","d">>,
     b |-> <<"t","o"," ","t","h","e"," ","g","r","o","u","p">>],
    [a |-> <<"r","e","m","o","v","e","d">>,
     b |-> <<"f","r","o","m"," ","t","h","e"," ","g","r","o","u","p">>] >>

SystemPatterns(p) ==
    IF p = FlaskProg THEN SystemPatternsLenient ELSE SystemPatternsStrict

\* any(re.search(pattern, line, re.IGNORECASE) for pattern in system_patterns)
IsSystemMessage(p, line) ==
    \E i \in DOMAIN SystemPatterns(p) :
        LET pat == SystemPatterns(p)[i]
        IN  IF pat.b = <<>> THEN ContainsFromNoCase(line, pat.a, 1)
            ELSE ContainsThenNoCase(line, pat.a, pat.b)

\* ------------------------------------------------------------------------
\* External collaborators
\* ------------------------------------------------------------------------

\* The characters of the model's alphabet that are keys of emoji.EMOJI_DATA.
EmojiData == {"U1F642"}

\* for char in message: if char in emoji.EMOJI_DATA
EmojiCountOf(message) == Cardinality({k \in DOMAIN message : message[k] \in EmojiData})

\* "http" in message or "www." in message
HasLink(message) ==
    Contains(message, <<"h", "t", "t", "p">>) \/ Contains(message, <<"w", "w", "w", ".">>)

\* TextBlob(message).sentiment.polarity, in hundredths.  The scorer is an
\* external pure function; these are the values assumed for the bodies of
\* the model's transcripts.
TextBlobPolarity(message) ==
    IF Contains(message, <<"b", "a", "d">>) THEN -70
    ELSE IF Contains(message, <<"g", "o", "o", "d">>) THEN 70
    ELSE 0

\* ------------------------------------------------------------------------
\* Input: the lines a transcript file may hold
\* ------------------------------------------------------------------------

\* the spec's example, first line
LineAliceLink ==
    <<"1","/","2","/","2","3",","," ","9",":","0","0"," ","A","M"," ","-"," ","A","l","i","c","e",":"," ","h","e","l","l","o"," ","h","t","t","p",":","/","/","x",".","c","o"," ","U1F642">>

\* the spec's example, second line
LineBobHi ==
    <<"1","/","2","/","2","3",","," ","9",":","0","5"," ","A","M"," ","-"," ","B","o","b",":"," ","h","i">>

\* a third header, ten minutes later
LineAliceBad ==
    <<"1","/","2","/","2","3",","," ","9",":","1","5"," ","A","M"," ","-"," ","A","l","i","c","e",":"," ","b","a","d">>

\* a line that is neither a header nor a notification
LineWorld ==
    <<"w","o","r","l","d">>

\* a deletion notice with the shape of a header
LineDeleted ==
    <<"1","/","2","/","2","3",","," ","9",":","0","1"," ","A","M"," ","-"," ","B","o","b",":"," ","Y","o","u"," ","d","e","l","e","t","e","d"," ","t","h","i","s"," ","m","e","s","s","a","g","e">>

\* a member-leave notice with the shape of a header
LineLeft ==
    <<"1","/","2","/","2","3",","," ","9",":","0","2"," ","A","M"," ","-"," ","B","o","b",":"," ","A","l"," ","L","e","f","t"," ","t","h","e"," ","g","r","o","u","p">>

\* a header whose date fits no format
LineUndatable ==
    <<"1","3","/","1","3","/","2","3",","," ","9",":","1","0"," ","A","M"," ","-"," ","B","o","b",":"," ","h","i">>

\* a header with an empty sender field
LineNoSender ==
    <<"1","/","2","/","2","3",","," ","9",":","0","0"," ","A","M"," ","-"," ",":"," ","h","i">>

\* a header dated before the others
LineEarlier ==
    <<"3","1","/","1","/","2","3",","," ","1","1",":","3","0"," ","P","M"," ","-"," ","B","o","b",":"," ","g","o","o","d">>

\* a header whose sender field holds a colon, and so does its body
LineColonSender ==
    <<"1","/","2","/","2","3",","," ","9",":","2","0"," ","A","M"," ","-"," ","A",":","B",":"," ","h","i",":"," ","y","o">>

\* a header whose body is the bare word http
LineBareHttp ==
    <<"1","/","2","/","2","3",","," ","9",":","2","5"," ","A","M"," ","-"," ","B","o","b",":"," ","h","t","t","p">>

\* a header without a time, date written with slashes and a two-digit year
LineNoTimeSlash ==
    <<"1","/","2","/","2","3"," ","-"," ","B","o","b",":"," ","h","i">>

\* a header without a time, date written with dashes and a four-digit year
LineNoTimeDash ==
    <<"1","-","2","-","2","0","2","3"," ","-"," ","B","o","b",":"," ","h","i">>

Corpus ==
    {LineAliceLink, LineBobHi, LineAliceBad, LineWorld, LineDeleted, LineLeft,
     LineUndatable, LineNoSender, LineEarlier, LineColonSender, LineBareHttp,
     LineNoTimeSlash, LineNoTimeDash}

\* The longest transcript, in lines.
MaxLines == 3

\* ------------------------------------------------------------------------
\* Aggregation
\* ------------------------------------------------------------------------

\* The tally written with = instead of += : d[k] = n
IncrementOverwrite(d, k, n) ==
    IF k \in DOMAIN d THEN [d EXCEPT ![k] = n] ELSE d @@ (k :> n)

\* d[k] += n on a defaultdict(int)
Increment(d, k, n) ==
    IF k \in DOMAIN d THEN [d EXCEPT ![k] = @ + n] ELSE d @@ (k :> n)

RECURSIVE DailyChatFrequencyFrom(_, _, _)
DailyChatFrequencyFrom(tss, i, daily_freq) ==
    IF i > Len(tss) THEN daily_freq
    ELSE DailyChatFrequencyFrom(tss, i + 1, Increment(daily_freq, DateOf(tss[i]), 1))

\* daily_chat_frequency(timestamps): calendar date -> number of messages
DailyChatFrequency(tss) == DailyChatFrequencyFrom(tss, 1, <<>>)

RECURSIVE SumSeq(_)
SumSeq(q) == IF q = <<>> THEN 0 ELSE q[1] + SumSeq(Tail(q))

RECURSIVE SumValues(_)
\* sum(d.values())
SumValues(d) ==
    IF DOMAIN d = {} THEN 0
    ELSE LET k == CHOOSE x \in DOMAIN d : TRUE
         IN  d[k] + SumValues([x \in DOMAIN d \ {k} |-> d[x]])

\* A number as the exact fraction num / den.
Zero == [num |-> 0, den |-> 1]

\* average_messages_per_day(daily_freq): np.mean of the values, 0 if none
AverageMessagesPerDay(daily_freq) ==
    IF DOMAIN daily_freq = {} THEN Zero
    ELSE [num |-> SumValues(daily_freq), den |-> Cardinality(DOMAIN daily_freq)]

RECURSIVE ResponseTimesFrom(_, _, _, _)
\* The loop of response_time_analysis: prev_time is a message index, 0 for
\* None (a datetime is always truthy, so `if prev_time` only tests for None).
\* Each element is (timestamp - prev_time).total_seconds() / 60.
ResponseTimesFrom(msgs, i, prev, response_times) ==
    IF i > Len(msgs) THEN response_times
    ELSE ResponseTimesFrom(msgs, i + 1, i,
            IF prev # 0
            THEN Append(response_times,
                        (60 * (MinuteOf(msgs[i].timestamp) - MinuteOf(msgs[prev].timestamp)))
                            \div 60)
            ELSE response_times)

\* The mean taken over the messages instead of over the gaps between them.
ResponseTimeAnalysisPerMessage(msgs) ==
    LET response_times == ResponseTimesFrom(msgs, 1, 0, <<>>)
    IN  IF response_times = <<>> THEN Zero
        ELSE [num |-> SumSeq(response_times), den |-> Len(msgs)]

\* response_time_analysis(messages): np.mean(response_times), 0 if none
ResponseTimeAnalysis(msgs) ==
    LET response_times == ResponseTimesFrom(msgs, 1, 0, <<>>)
    IN  IF response_times = <<>> THEN Zero
        ELSE [num |-> SumSeq(response_times), den |-> Len(response_times)]

SentimentBuckets == {"Too Negative", "Negative", "Neutral", "Positive", "Very Positive"}

\* The chain with strict comparisons: a polarity on a threshold falls into
\* the bucket above it.
ClassifyPolarityStrict(polarity) ==
    IF polarity < -60 THEN "Too Negative"
    ELSE IF polarity < -20 THEN "Negative"
    ELSE IF polarity < 20 THEN "Neutral"
    ELSE IF polarity < 60 THEN "Positive"
    ELSE "Very Positive"

\* The if/elif chain of sentiment_analysis; polarity in hundredths.
ClassifyPolarity(polarity) ==
    IF polarity <= -60 THEN "Too Negative"
    ELSE IF polarity <= -20 THEN "Negative"
    ELSE IF polarity <= 20 THEN "Neutral"
    ELSE IF polarity <= 60 THEN "Positive"
    ELSE "Very Positive"

\* sentiment_counts at the start of sentiment_analysis
EmptySentimentCounts == [b \in SentimentBuckets |-> 0]

\* One iteration of the loop of sentiment_analysis on a scored message.
SentimentStep(sentiment_counts, polarity) ==
    [sentiment_counts EXCEPT ![ClassifyPolarity(polarity)] = @ + 1]

RECURSIVE SentimentCountsFrom(_, _, _)
SentimentCountsFrom(pols, i, sentiment_counts) ==
    IF i > Len(pols) THEN sentiment_counts
    ELSE SentimentCountsFrom(pols, i + 1, SentimentStep(sentiment_counts, pols[i]))

\* What sentiment_analysis returns for the polarities of the messages.
SentimentResult(pols) ==
    LET sentiment_counts == SentimentCountsFrom(pols, 1, EmptySentimentCounts)
        total_messages == Len(pols)
    IN  IF total_messages = 0
        THEN [average_polarity |-> Zero,
              distribution |-> sentiment_counts,
              percentages |-> [b \in SentimentBuckets |-> Zero]]
        ELSE [average_polarity |-> [num |-> SumSeq(pols), den |-> total_messages],
              distribution |-> sentiment_counts,
              percentages |-> [b \in SentimentBuckets |->
                                  [num |-> sentiment_counts[b] * 100,
                                   den |-> total_messages]]]

\* sentiment_analysis(messages) of WA_prog_senti_distribution.py
SentimentAnalysis(msgs) ==
    SentimentResult([k \in DOMAIN msgs |-> TextBlobPolarity(msgs[k].message)])

\* sentiment_analysis(messages) of WA_prog_v1_flask.py: the mean polarity only
SentimentAnalysisV1(msgs) ==
    LET pols == [k \in DOMAIN msgs |-> TextBlobPolarity(msgs[k].message)]
    IN  IF pols = <<>> THEN Zero ELSE [num |-> SumSeq(pols), den |-> Len(pols)]

\* min(timestamps) if timestamps else None; None is <<>>
MinTimestamp(tss) ==
    IF tss = <<>> THEN <<>>
    ELSE tss[CHOOSE i \in DOMAIN tss : \A j \in DOMAIN tss : MinuteOf(tss[i]) <= MinuteOf(tss[j])]

\* max(timestamps) if timestamps else None
MaxTimestamp(tss) ==
    IF tss = <<>> THEN <<>>
    ELSE tss[CHOOSE i \in DOMAIN tss : \A j \in DOMAIN tss : MinuteOf(tss[i]) >= MinuteOf(tss[j])]

\* ------------------------------------------------------------------------
\* State
\* ------------------------------------------------------------------------

VARIABLES
    prog,                \* the program that is running
    phase,               \* which call of the process this is
    pc,                  \* "idle", "loop" (inside parse_whatsapp_chat), "done"
    lines,               \* file.readlines()
    idx,                 \* the number of lines the loop has consumed
    messages,            \* the locals of parse_whatsapp_chat
    user_message_count,
    timestamps,
    users,
    emojis_count,
    link_count,
    printed,             \* the diagnostics printed by the call, in order
    outcome,             \* what the call gave its caller
    saved,               \* the input and outcome of the recorded call
    layout,              \* round trip: the index of a format of the list
    instant,             \* round trip: the instant that is formatted
    formatted,           \* round trip: the instant formatted with the layout
    parsed,              \* round trip: parse_datetime(formatted)
    rt_pc,               \* round trip: "start", "formatted", "parsed"
    polarities,          \* sentiment_analysis: the polarities scored so far
    sentiment_counts,    \* sentiment_analysis: its dictionary of counts
    sentiment_result,    \* sentiment_analysis: what it returned
    file,                \* the bytes of the input file, line by line
    disk,                \* the uploads directory: file name -> lines on disk
    reqs,                \* the upload requests being served
    participants,        \* the locals of identify_chat_participants
    total_characters,
    start_time,
    end_time

parserVars == <<phase, pc, lines, idx, messages, user_message_count, timestamps,
                users, emojis_count, link_count, printed, outcome, saved>>

roundTripVars == <<layout, instant, formatted, parsed, rt_pc>>

sentimentVars == <<polarities, sentiment_counts, sentiment_result>>

decodeVars == <<file>>

uploadVars == <<disk, reqs>>

participantVars == <<participants, total_characters, start_time, end_time>>

\* No value (Python's None, an unset variable).
Absent == <<>>

\* ------------------------------------------------------------------------
\* parse_whatsapp_chat and its callers
\* ------------------------------------------------------------------------

\* The calls of one process: a first call, a second call whose input and
\* outcome are kept, and the second call's input given again.
NextPhase(ph) == IF ph = "warmup" THEN "record" ELSE "replay"

\* A call whose link counter is a module-level variable: it is not set back
\* to zero when the call starts.
OpenLeaky ==
    /\ pc = "idle" \/ (pc = "done" /\ phase # "replay")
    /\ phase' = IF pc = "idle" THEN phase ELSE NextPhase(phase)
    /\ lines' = IF phase' = "replay" THEN saved.lines ELSE <<>>
    /\ idx' = 0
    /\ messages' = <<>>
    /\ user_message_count' = <<>>
    /\ timestamps' = <<>>
    /\ users' = {}
    /\ emojis_count' = <<>>
    /\ printed' = <<>>
    /\ outcome' = Absent
    /\ pc' = "loop"
    /\ UNCHANGED <<prog, saved, link_count, roundTripVars, sentimentVars,
                   decodeVars, uploadVars, participantVars>>

\* with open(filename) ...: lines = file.readlines(), then the locals are
\* created empty.  A call after the first starts when the one before has
\* ended.  The loop never looks ahead in the file, so the lines of a new
\* file are chosen as the loop comes to them; a replayed file is known whole.
Open ==
    /\ pc = "idle" \/ (pc = "done" /\ phase # "replay")
    /\ phase' = IF pc = "idle" THEN phase ELSE NextPhase(phase)
    /\ lines' = IF phase' = "replay" THEN saved.lines ELSE <<>>
    /\ idx' = 0
    /\ messages' = <<>>
    /\ user_message_count' = <<>>
    /\ timestamps' = <<>>
    /\ users' = {}
    /\ emojis_count' = <<>>
    /\ link_count' = 0
    /\ printed' = <<>>
    /\ outcome' = Absent
    /\ pc' = "loop"
    /\ UNCHANGED <<prog, saved, roundTripVars, sentimentVars,
                   decodeVars, uploadVars, participantVars>>

\* f"{date} {time}" after  time = time if time else "00:00"
DateTimeString(m) ==
    m.date \o <<" ">> \o (IF m.time # <<>> THEN m.time ELSE <<"0", "0", ":", "0", "0">>)

\* What one iteration of `for line in lines` does with a raw line:
\*   "system"     is_system_message(line): continue
\*   "unmatched"  chat_pattern does not match: nothing is done
\*   "undatable"  parse_datetime raised ValueError or returned None
\*   "no date"    the date group is empty
\*   "message"    a record is appended
ClassifyLine(p, raw) ==
    Apply(LAMBDA line :
        IF IsSystemMessage(p, line) THEN [kind |-> "system", line |-> line]
        ELSE Apply(LAMBDA m :
            IF ~m.ok THEN [kind |-> "unmatched", line |-> line]
            ELSE IF p # FlaskProg /\ m.date = <<>> THEN [kind |-> "no date", line |-> line]
            ELSE Apply(LAMBDA t :
                IF ~t.ok THEN [kind |-> "undatable", line |-> line, error |-> t.error]
                ELSE [kind |-> "message", line |-> line,
                      record |-> [timestamp |-> t.ts, user |-> m.user,
                                  message |-> m.message]],
                ParseDatetime(p, DateTimeString(m))),
            ChatPatternMatch(line)),
        Strip(raw))

\* ClassifyLine of every line of the corpus, as a table (@@ makes the model
\* checker evaluate the table once instead of at every use).
Classified ==
    [p \in Programs |-> [raw \in Corpus |-> ClassifyLine(p, raw)] @@ <<>>] @@ <<>>

\* The body of `for line in lines` on the raw line.
LoopBody(raw) ==
    LET c == Classified[prog][raw]
    IN  IF c.kind = "message"
        THEN /\ timestamps' = Append(timestamps, c.record.timestamp)
             /\ users' = users \cup {c.record.user}
             /\ user_message_count' = Increment(user_message_count, c.record.user, 1)
             /\ messages' = Append(messages, c.record)
             /\ emojis_count' =
                    IF EmojiCountOf(c.record.message) > 0
                    THEN Increment(emojis_count, c.record.user,
                                   EmojiCountOf(c.record.message))
                    ELSE emojis_count
             /\ link_count' = IF HasLink(c.record.message) THEN link_count + 1
                              ELSE link_count
             /\ printed' = printed
        ELSE /\ UNCHANGED <<timestamps, users, user_message_count, messages,
                            emojis_count, link_count>>
             /\ printed' =
                    IF c.kind = "no date"
                    THEN Append(printed, [text |-> "Skipping line due to missing date",
                                          line |-> c.line])
                    ELSE IF c.kind = "undatable" /\ c.error = "ValueError"
                    THEN Append(printed, [text |-> "Skipping line due to format error",
                                          line |-> c.line])
                    ELSE printed

\* One iteration of `for line in lines` over a new file: the next line is
\* any line of the corpus.
ProcessLine ==
    /\ pc = "loop"
    /\ phase # "replay"
    /\ Len(lines) < MaxLines
    /\ \E raw \in Corpus :
          /\ lines' = Append(lines, raw)
          /\ LoopBody(raw)
    /\ idx' = idx + 1
    /\ UNCHANGED <<prog, phase, pc, outcome, saved, roundTripVars, sentimentVars,
                   decodeVars, uploadVars, participantVars>>

\* One iteration of `for line in lines` over the recorded file.
ProcessReplayedLine ==
    /\ pc = "loop"
    /\ phase = "replay"
    /\ idx < Len(lines)
    /\ LoopBody(lines[idx + 1])
    /\ idx' = idx + 1
    /\ UNCHANGED <<prog, phase, pc, lines, outcome, saved, roundTripVars, sentimentVars,
                   decodeVars, uploadVars, participantVars>>

\* The dictionary parse_whatsapp_chat returns.
ChatData ==
    [messages |-> messages,
     user_message_count |-> user_message_count,
     users |-> users,
     timestamps |-> timestamps,
     chat_start |-> MinTimestamp(timestamps),
     chat_end |-> MaxTimestamp(timestamps),
     emoji_count |-> emojis_count,
     link_count |-> link_count]

\* What the caller of parse_whatsapp_chat makes of chat_data:
\* display_chat_summary in the script and in WA_prog_v1_flask.py's upload_chat
\* (response 200), jsonify(chat_data) in whatsapp_flask_python.py's.
Summary(p, chat_data) ==
    IF p = FlaskProg
    THEN [error |-> FALSE, http |-> 200, chat_data |-> chat_data,
          daily_freq |-> Absent, avg_messages_per_day |-> Absent,
          response_time |-> Absent, sentiment |-> Absent]
    ELSE [error |-> FALSE, http |-> IF p = V1FlaskProg THEN 200 ELSE 0,
          chat_data |-> chat_data,
          daily_freq |-> DailyChatFrequency(chat_data.timestamps),
          avg_messages_per_day |->
              AverageMessagesPerDay(DailyChatFrequency(chat_data.timestamps)),
          response_time |-> ResponseTimeAnalysis(chat_data.messages),
          sentiment |-> IF p = V1FlaskProg THEN SentimentAnalysisV1(chat_data.messages)
                        ELSE SentimentAnalysis(chat_data.messages)]

\* ValueError("Error: No valid messages found in the chat file.") as its
\* caller hands it on: printed by the script, response 400 from upload_chat.
NoValidMessages(p) ==
    [error |-> TRUE, http |-> IF p = V1FlaskProg THEN 400 ELSE 0,
     chat_data |-> Absent, daily_freq |-> Absent, avg_messages_per_day |-> Absent,
     response_time |-> Absent, sentiment |-> Absent]

\* The end of the loop: `if not messages: raise ValueError(...)`, which
\* whatsapp_flask_python.py does not have, else the return and the caller.
Return ==
    /\ pc = "loop"
    /\ idx = Len(lines)
    /\ outcome' = IF prog # FlaskProg /\ messages = <<>> THEN NoValidMessages(prog)
                  ELSE Summary(prog, ChatData)
    /\ saved' = IF phase = "record" THEN [lines |-> lines, outcome |-> outcome']
                ELSE saved
    /\ pc' = "done"
    /\ UNCHANGED <<prog, phase, lines, idx, messages, user_message_count, timestamps,
                   users, emojis_count, link_count, printed, roundTripVars,
                   sentimentVars,
                   decodeVars, uploadVars, participantVars>>

\* ------------------------------------------------------------------------
\* The round trip of parse_datetime: an instant is formatted with one layout
\* of the list and the string is parsed back
\* ------------------------------------------------------------------------

TwoDigits(n) == <<Digits[((n \div 10) % 10) + 1], Digits[(n % 10) + 1]>>

\* One directive or literal of datetime.strftime.
StrftimeItem(ts, item) ==
    CASE item = "%d" -> TwoDigits(ts.day)
      [] item = "%m" -> TwoDigits(ts.month)
      [] item = "%y" -> TwoDigits(ts.year % 100)
      [] item = "%Y" -> TwoDigits(ts.year \div 100) \o TwoDigits(ts.year % 100)
      [] item = "%H" -> TwoDigits(ts.hour)
      [] item = "%I" -> TwoDigits(((ts.hour + 11) % 12) + 1)
      [] item = "%M" -> TwoDigits(ts.minute)
      [] item = "%p" -> IF ts.hour < 12 THEN <<"A", "M">> ELSE <<"P", "M">>
      [] OTHER -> <<item>>

RECURSIVE StrftimeFrom(_, _, _)
StrftimeFrom(ts, fmt, i) ==
    IF i > Len(fmt) THEN <<>>
    ELSE StrftimeItem(ts, fmt[i]) \o StrftimeFrom(ts, fmt, i + 1)

\* ts.strftime(fmt)
Strftime(ts, fmt) == StrftimeFrom(ts, fmt, 1)

\* The instants that are formatted: years on both sides of the two-digit
\* pivot, days that can and cannot be read as a month, both halves of the day.
InstantYears == {1968, 1969, 2010, 2023, 2068, 2069}
InstantMonths == {1, 2, 12}
InstantDays == {1, 2, 10, 13, 28}
InstantTimes == {<<0, 0>>, <<9, 5>>, <<12, 0>>, <<12, 30>>, <<13, 5>>, <<23, 59>>}

Instants ==
    {[year |-> y, month |-> m, day |-> d, hour |-> t[1], minute |-> t[2]] :
        y \in InstantYears, m \in InstantMonths, d \in InstantDays, t \in InstantTimes}

\* formatted = instant.strftime(formats[layout])
Format ==
    /\ rt_pc = "start"
    /\ formatted' = Strftime(instant, Formats(prog)[layout])
    /\ rt_pc' = "formatted"
    /\ UNCHANGED <<prog, parserVars, layout, instant, parsed, sentimentVars,
                   decodeVars, uploadVars, participantVars>>

\* parsed = parse_datetime(formatted)
Parse ==
    /\ rt_pc = "formatted"
    /\ parsed' = ParseDatetime(prog, formatted)
    /\ rt_pc' = "parsed"
    /\ UNCHANGED <<prog, parserVars, layout, instant, formatted, sentimentVars,
                   decodeVars, uploadVars, participantVars>>

\* ------------------------------------------------------------------------
\* sentiment_analysis on its own, one message at a time: the scorer may
\* return any polarity of PolaritySet (hundredths)
\* ------------------------------------------------------------------------

PolaritySet == {-100, -61, -60, -59, -21, -20, -19, 0, 19, 20, 21, 59, 60, 61, 100}

\* The most messages scored in one call.
MaxScored == 3

\* One iteration of `for msg in messages` of sentiment_analysis.
ScoreMessage ==
    /\ sentiment_result = Absent
    /\ Len(polarities) < MaxScored
    /\ \E polarity \in PolaritySet :
          /\ polarities' = Append(polarities, polarity)
          /\ sentiment_counts' = SentimentStep(sentiment_counts, polarity)
    /\ UNCHANGED <<prog, parserVars, roundTripVars, sentiment_result,
                   decodeVars, uploadVars, participantVars>>

\* The end of sentiment_analysis: the average, the counts, the percentages.
ReturnSentiment ==
    /\ sentiment_result = Absent
    /\ sentiment_result' =
           IF Len(polarities) = 0
           THEN [average_polarity |-> Zero,
                 distribution |-> sentiment_counts,
                 percentages |-> [b \in SentimentBuckets |-> Zero]]
           ELSE [average_polarity |-> [num |-> SumSeq(polarities), den |-> Len(polarities)],
                 distribution |-> sentiment_counts,
                 percentages |-> [b \in SentimentBuckets |->
                                     [num |-> sentiment_counts[b] * 100,
                                      den |-> Len(polarities)]]]
    /\ UNCHANGED <<prog, parserVars, roundTripVars, polarities, sentiment_counts,
                   decodeVars, uploadVars, participantVars>>

\* ------------------------------------------------------------------------
\* The bytes of the input file: open(filename, "r", encoding="utf-8") and
\* file.readlines()
\* ------------------------------------------------------------------------

\* A byte that is not valid UTF-8.
BadByte == "xFF"

\* a header whose body ends with a byte that is not valid UTF-8
LineBadByte ==
    <<"1","/","2","/","2","3",","," ","9",":","3","0"," ","A","M"," ","-"," ","B","o","b",":"," ","c","a","f","xFF">>

\* The lines a file of bytes may hold.
DecodeCorpus == {LineAliceLink, LineBobHi, LineWorld, LineBadByte}

\* The longest file of bytes, in lines.
MaxFileLines == 2

FilesOfBytes == UNION {[1..n -> DecodeCorpus] : n \in 0..MaxFileLines}

\* The line is valid UTF-8.
DecodableLine(bytes) == \A k \in DOMAIN bytes : bytes[k] # BadByte

\* The file is valid UTF-8: errors is left at its default, "strict", so
\* readlines decodes the file or raises UnicodeDecodeError.
Decodable(f) == \A i \in DOMAIN f : DecodableLine(f[i])

\* UnicodeDecodeError, which is a ValueError, as the caller hands it on:
\* printed by the script, response 400 from either upload_chat.
UnicodeDecodeError(p) ==
    [error |-> TRUE, raised |-> "UnicodeDecodeError",
     http |-> IF p = SentiProg THEN 0 ELSE 400,
     chat_data |-> Absent, daily_freq |-> Absent, avg_messages_per_day |-> Absent,
     response_time |-> Absent, sentiment |-> Absent]

\* with open(filename, "r", encoding="utf-8") as file: lines = file.readlines()
\* on the bytes of the file.
ReadFile ==
    /\ pc = "idle"
    /\ phase = "file"
    /\ IF Decodable(file)
       THEN /\ lines' = file
            /\ pc' = "loop"
            /\ outcome' = Absent
       ELSE /\ lines' = <<>>
            /\ pc' = "done"
            /\ outcome' = UnicodeDecodeError(prog)
    /\ UNCHANGED <<prog, phase, idx, messages, user_message_count, timestamps, users,
                   emojis_count, link_count, printed, saved, roundTripVars,
                   sentimentVars, decodeVars, uploadVars, participantVars>>

\* One iteration of `for line in lines` over the decoded file.
ProcessFileLine ==
    /\ pc = "loop"
    /\ phase = "file"
    /\ idx < Len(lines)
    /\ LoopBody(lines[idx + 1])
    /\ idx' = idx + 1
    /\ UNCHANGED <<prog, phase, pc, lines, outcome, saved, roundTripVars, sentimentVars,
                   decodeVars, uploadVars, participantVars>>

\* ------------------------------------------------------------------------
\* WA_prog.py: identify_chat_participants
\* Line 76 reads `match.    (1)`, which is no Python; it is modelled as
\* match.group(1), the date group that the timestamp is built from.
\* ------------------------------------------------------------------------

WAProg == "WA_prog"

\* (.*?): from position p: the sender ends at the first colon.
ParticipantSender(s, p, date, time) ==
    LET ends == {q \in p..Len(s) : s[q] = ":"}
    IN  IF ends = {} THEN NoMatch
        ELSE LET q == CHOOSE e \in ends : \A f \in ends : e <= f
             IN  [ok |-> TRUE, date |-> date, time |-> time,
                  sender |-> SubSeq(s, p, q - 1), end |-> q]

\* `, (\d{h}:\d{2} (AM|PM)) - ` at p, after the date group
ParticipantClock(s, p, h, date) ==
    IF /\ At(s, p) = "," /\ At(s, p + 1) = " "
       /\ DigitsAt(s, p + 2, h) /\ At(s, p + 2 + h) = ":" /\ DigitsAt(s, p + 3 + h, 2)
       /\ At(s, p + 5 + h) = " "
       /\ At(s, p + 6 + h) \in {"A", "P"} /\ At(s, p + 7 + h) = "M"
       /\ At(s, p + 8 + h) = " " /\ At(s, p + 9 + h) = "-" /\ At(s, p + 10 + h) = " "
    THEN ParticipantSender(s, p + 11 + h, date, SubSeq(s, p + 2, p + 7 + h))
    ELSE NoMatch

\* \d{1,2} of the hour
ParticipantTime(s, p, date) ==
    FirstOf(LAMBDA h : ParticipantClock(s, p, h, date), <<2, 1>>)

\* \d{2,4} closing the date group
ParticipantYear(s, p) ==
    FirstOf(LAMBDA y : IF DigitsAt(s, p, y)
                       THEN ParticipantTime(s, p + y, SubSeq(s, 1, p + y - 1))
                       ELSE NoMatch,
            <<4, 3, 2>>)

\* /\d{1,2}/
ParticipantMonth(s, p) ==
    IF At(s, p) = "/"
    THEN FirstOf(LAMBDA n : IF DigitsAt(s, p + 1, n) /\ At(s, p + 1 + n) = "/"
                            THEN ParticipantYear(s, p + 2 + n)
                            ELSE NoMatch,
                 <<2, 1>>)
    ELSE NoMatch

\* re.match(r"(\d{1,2}/\d{1,2}/\d{2,4}), (\d{1,2}:\d{2} (AM|PM)) - (.*?):", line)
ParticipantPatternMatch(line) ==
    FirstOf(LAMBDA n : IF DigitsAt(line, 1, n) THEN ParticipantMonth(line, n + 1)
                       ELSE NoMatch,
            <<2, 1>>)

\* line.split(":", 1)[1]: the text after the first colon of the line
SplitFirstColon(line) ==
    LET q == CHOOSE e \in DOMAIN line :
                 line[e] = ":" /\ \A f \in DOMAIN line : line[f] = ":" => e <= f
    IN  SubSeq(line, q + 1, Len(line))

\* What the loop body takes from a line: timestamp, sender and message, or
\* no match.
IdentifyOne(line) ==
    Apply(LAMBDA m :
              IF m.ok
              THEN [ok |-> TRUE,
                    timestamp |-> m.date \o <<",", " ">> \o m.time,
                    sender |-> m.sender,
                    message |-> Strip(SplitFirstColon(line)),
                    end |-> m.end]
              ELSE NoMatch,
          ParticipantPatternMatch(line))

\* The lines a file given to identify_chat_participants may hold.
ParticipantCorpus ==
    {LineAliceLink, LineBobHi, LineAliceBad, LineWorld, LineColonSender, LineNoTimeSlash}

Identified == [line \in ParticipantCorpus |-> IdentifyOne(line)]

\* participants = {}, total_characters = 0, start_time = None, end_time = None
\* and the file opened
IdentifyOpen ==
    /\ pc = "idle"
    /\ phase = "participants"
    /\ pc' = "loop"
    /\ participants' = <<>>
    /\ total_characters' = 0
    /\ start_time' = Absent
    /\ end_time' = Absent
    /\ UNCHANGED <<prog, phase, lines, idx, messages, user_message_count, timestamps,
                   users, emojis_count, link_count, printed, outcome, saved,
                   roundTripVars, sentimentVars, decodeVars, uploadVars>>

\* One iteration of `for line in lines`; the file is written as it is read.
IdentifyLine ==
    /\ pc = "loop"
    /\ phase = "participants"
    /\ Len(lines) < MaxLines
    /\ \E line \in ParticipantCorpus :
        /\ lines' = Append(lines, line)
        /\ idx' = idx + 1
        /\ LET match == Identified[line]
           IN  IF match.ok
               THEN /\ start_time' = IF start_time = Absent THEN match.timestamp
                                     ELSE start_time
                    /\ end_time' = match.timestamp
                    /\ total_characters' = total_characters + Len(match.message)
                    /\ participants' =
                           IF match.sender \in DOMAIN participants
                           THEN [participants EXCEPT
                                     ![match.sender] =
                                         [message_count |-> @.message_count + 1,
                                          char_count |-> @.char_count + Len(match.message)]]
                           ELSE participants @@
                                (match.sender :> [message_count |-> 1,
                                                  char_count |-> Len(match.message)])
               ELSE UNCHANGED participantVars
    /\ UNCHANGED <<prog, phase, pc, messages, user_message_count, timestamps, users,
                   emojis_count, link_count, printed, outcome, saved, roundTripVars,
                   sentimentVars, decodeVars, uploadVars>>

\* return participants, total_characters, start_time, end_time
IdentifyReturn ==
    /\ pc = "loop"
    /\ phase = "participants"
    /\ pc' = "done"
    /\ outcome' = <<participants, total_characters, start_time, end_time>>
    /\ UNCHANGED <<prog, phase, lines, idx, messages, user_message_count, timestamps,
                   users, emojis_count, link_count, printed, saved, roundTripVars,
                   sentimentVars, decodeVars, uploadVars, participantVars>>

\* ------------------------------------------------------------------------
\* upload_chat of WA_prog_v1_flask.py and whatsapp_flask_python.py: requests
\* are served by concurrent threads, and every request saves its file as
\* uploads/<client filename> before parsing it
\* ------------------------------------------------------------------------

\* The number of requests in flight.
NumRequests == 2

\* What a request carries: no file part, or a file with a client filename
\* (which may be empty) and a content, written in as many pieces as it has
\* lines.
UploadRequests ==
    {[has_file |-> FALSE, filename |-> "", content |-> <<>>],
     [has_file |-> TRUE, filename |-> "", content |-> <<>>]}
    \cup [has_file : {TRUE}, filename : {"chat.txt", "other.txt"},
          content : {<<LineBobHi>>, <<LineAliceLink, LineAliceBad>>}]

\* The bytes a file holds where nothing was written below a later write.
Hole == <<"x00">>

\* f after a write of piece c at position k of a descriptor: the file grows
\* to hold it, and what lies between the old end and k is a hole.
WriteAt(f, k, c) ==
    [i \in 1..(IF k > Len(f) THEN k ELSE Len(f)) |->
        IF i = k THEN c ELSE IF i <= Len(f) THEN f[i] ELSE Hole]

RECURSIVE RecordsOf(_, _)
\* The records parse_whatsapp_chat of program p makes of the lines ls.
RecordsOf(p, ls) ==
    IF ls = <<>> THEN <<>>
    ELSE (IF Head(ls) \in Corpus /\ Classified[p][Head(ls)].kind = "message"
          THEN <<Classified[p][Head(ls)].record>> ELSE <<>>)
         \o RecordsOf(p, Tail(ls))

\* The response of upload_chat to a saved file of lines ls: 400 for the
\* ValueError of a file without a record, else 200 with the summary, which
\* is a function of the records.
UploadResponse(p, ls) ==
    IF p # FlaskProg /\ RecordsOf(p, ls) = <<>>
    THEN [http |-> 400, messages |-> <<>>]
    ELSE [http |-> 200, messages |-> RecordsOf(p, ls)]

\* A request as it arrives.
NewRequest(q) ==
    [pc |-> "start", has_file |-> q.has_file, filename |-> q.filename,
     content |-> q.content, written |-> 0, read |-> Absent, response |-> Absent]

\* `if 'file' not in request.files` and, in WA_prog_v1_flask.py only,
\* `if file.filename == ''`. In whatsapp_flask_python.py an empty filename
\* makes file_path the directory uploads/, file.save raises outside the try
\* and the server answers 500.
UploadCheck ==
    \E r \in DOMAIN reqs :
        /\ reqs[r].pc = "start"
        /\ reqs' = [reqs EXCEPT ![r] =
                       IF ~@.has_file
                       THEN [@ EXCEPT !.pc = "done",
                                      !.response = [http |-> 400, messages |-> <<>>]]
                       ELSE IF @.filename = ""
                       THEN [@ EXCEPT !.pc = "done",
                                      !.response = [http |-> IF prog = V1FlaskProg THEN 400
                                                             ELSE 500,
                                                    messages |-> <<>>]]
                       ELSE [@ EXCEPT !.pc = "save"]]
        /\ UNCHANGED <<prog, parserVars, roundTripVars, sentimentVars, decodeVars, disk,
                       participantVars>>

\* file.save(file_path), opening: the file is created or truncated.
SaveOpen ==
    \E r \in DOMAIN reqs :
        /\ reqs[r].pc = "save"
        /\ disk' = IF reqs[r].filename \in DOMAIN disk
                   THEN [disk EXCEPT ![reqs[r].filename] = <<>>]
                   ELSE disk @@ (reqs[r].filename :> <<>>)
        /\ reqs' = [reqs EXCEPT ![r].pc = "write"]
        /\ UNCHANGED <<prog, parserVars, roundTripVars, sentimentVars, decodeVars,
                       participantVars>>

\* file.save(file_path), copying: the next piece is written at the
\* descriptor's own position.
SaveWrite ==
    \E r \in DOMAIN reqs :
        /\ reqs[r].pc = "write"
        /\ reqs[r].written < Len(reqs[r].content)
        /\ disk' = [disk EXCEPT ![reqs[r].filename] =
                       WriteAt(@, reqs[r].written + 1, reqs[r].content[reqs[r].written + 1])]
        /\ reqs' = [reqs EXCEPT ![r].written = @ + 1]
        /\ UNCHANGED <<prog, parserVars, roundTripVars, sentimentVars, decodeVars,
                       participantVars>>

\* The file is closed, parse_whatsapp_chat(file_path) reads what the file
\* holds now, and the response is made of it.
ParseUpload ==
    \E r \in DOMAIN reqs :
        /\ reqs[r].pc = "write"
        /\ reqs[r].written = Len(reqs[r].content)
        /\ reqs' = [reqs EXCEPT ![r] =
                       [@ EXCEPT !.pc = "done",
                                 !.read = disk[reqs[r].filename],
                                 !.response = UploadResponse(prog, disk[reqs[r].filename])]]
        /\ UNCHANGED <<prog, parserVars, roundTripVars, sentimentVars, decodeVars, disk,
                       participantVars>>

\* ------------------------------------------------------------------------
\* Specification
\* ------------------------------------------------------------------------

vars == <<prog, parserVars, roundTripVars, sentimentVars, decodeVars, uploadVars,
          participantVars>>

ParserInit ==
    /\ phase = "warmup"
    /\ pc = "idle"
    /\ lines = <<>>
    /\ idx = 0
    /\ messages = <<>>
    /\ user_message_count = <<>>
    /\ timestamps = <<>>
    /\ users = {}
    /\ emojis_count = <<>>
    /\ link_count = 0
    /\ printed = <<>>
    /\ outcome = Absent
    /\ saved = Absent

RoundTripIdle ==
    /\ layout = 1
    /\ instant = Absent
    /\ formatted = <<>>
    /\ parsed = Absent
    /\ rt_pc = "idle"

SentimentInit ==
    /\ polarities = <<>>
    /\ sentiment_counts = EmptySentimentCounts
    /\ sentiment_result = Absent

DecodeIdle == file = <<>>

UploadIdle ==
    /\ disk = <<>>
    /\ reqs = <<>>

ParticipantsIdle ==
    /\ participants = <<>>
    /\ total_characters = 0
    /\ start_time = Absent
    /\ end_time = Absent

\* The processes that are not running in a specification.
OthersIdle == DecodeIdle /\ UploadIdle /\ ParticipantsIdle

\* The process that parses transcripts.
Init ==
    /\ prog \in Programs
    /\ ParserInit
    /\ RoundTripIdle
    /\ SentimentInit
    /\ OthersIdle

Next == Open \/ ProcessLine \/ ProcessReplayedLine \/ Return

Spec == Init /\ [][Next]_vars

\* The round trip of parse_datetime.
InitRoundTrip ==
    /\ prog \in Programs
    /\ ParserInit
    /\ layout \in DOMAIN Formats(prog)
    /\ instant \in Instants
    /\ formatted = <<>>
    /\ parsed = Absent
    /\ rt_pc = "start"
    /\ SentimentInit
    /\ OthersIdle

NextRoundTrip == Format \/ Parse

SpecRoundTrip == InitRoundTrip /\ [][NextRoundTrip]_vars

\* sentiment_analysis on its own.
InitSentiment ==
    /\ prog = SentiProg
    /\ ParserInit
    /\ RoundTripIdle
    /\ SentimentInit
    /\ OthersIdle

NextSentiment == ScoreMessage \/ ReturnSentiment

SpecSentiment == InitSentiment /\ [][NextSentiment]_vars

\* parse_whatsapp_chat on a file of bytes.
InitDecode ==
    /\ prog \in Programs
    /\ phase = "file"
    /\ pc = "idle"
    /\ lines = <<>>
    /\ idx = 0
    /\ messages = <<>>
    /\ user_message_count = <<>>
    /\ timestamps = <<>>
    /\ users = {}
    /\ emojis_count = <<>>
    /\ link_count = 0
    /\ printed = <<>>
    /\ outcome = Absent
    /\ saved = Absent
    /\ RoundTripIdle
    /\ SentimentInit
    /\ file \in FilesOfBytes
    /\ UploadIdle
    /\ ParticipantsIdle

NextDecode == ReadFile \/ ProcessFileLine \/ Return

SpecDecode == InitDecode /\ [][NextDecode]_vars

\* identify_chat_participants of WA_prog.py.
InitParticipants ==
    /\ prog = WAProg
    /\ phase = "participants"
    /\ pc = "idle"
    /\ lines = <<>>
    /\ idx = 0
    /\ messages = <<>>
    /\ user_message_count = <<>>
    /\ timestamps = <<>>
    /\ users = {}
    /\ emojis_count = <<>>
    /\ link_count = 0
    /\ printed = <<>>
    /\ outcome = Absent
    /\ saved = Absent
    /\ RoundTripIdle
    /\ SentimentInit
    /\ OthersIdle

NextParticipants == IdentifyOpen \/ IdentifyLine \/ IdentifyReturn

SpecParticipants == InitParticipants /\ [][NextParticipants]_vars

\* upload_chat serving NumRequests requests at once.
InitUpload ==
    /\ prog \in {V1FlaskProg, FlaskProg}
    /\ phase = "upload"
    /\ pc = "idle"
    /\ lines = <<>>
    /\ idx = 0
    /\ messages = <<>>
    /\ user_message_count = <<>>
    /\ timestamps = <<>>
    /\ users = {}
    /\ emojis_count = <<>>
    /\ link_count = 0
    /\ printed = <<>>
    /\ outcome = Absent
    /\ saved = Absent
    /\ RoundTripIdle
    /\ SentimentInit
    /\ DecodeIdle
    /\ ParticipantsIdle
    /\ disk = <<>>
    /\ \E qs \in [1..NumRequests -> UploadRequests] :
           reqs = [r \in 1..NumRequests |-> NewRequest(qs[r])]

NextUpload == UploadCheck \/ SaveOpen \/ SaveWrite \/ ParseUpload

SpecUpload == InitUpload /\ [][NextUpload]_vars

\* ------------------------------------------------------------------------
\* Properties
\* ------------------------------------------------------------------------

\* The accumulators of parse_whatsapp_chat.
accumulators == <<messages, timestamps, users, user_message_count, emojis_count,
                  link_count>>

\* What the loop made of line i of the file.
LineKind(i) == Classified[prog][lines[i]].kind

RECURSIVE BodyWithContinuations(_, _)
\* body followed by the unmatched lines from line i on, each on a new line.
BodyWithContinuations(body, i) ==
    IF i <= Len(lines) /\ LineKind(i) = "unmatched"
    THEN BodyWithContinuations(body \o <<"\n">> \o Classified[prog][lines[i]].line, i + 1)
    ELSE body

\* The index in messages of the record made from header line h.
RecordOfLine(h) == Cardinality({i \in 1..h : LineKind(i) = "message"})

\* C1: a header followed by k >= 1 lines that are neither headers nor
\* notifications gives exactly one record, whose body is the header's body
\* and the k lines in file order, joined by newlines.
C1_ContinuationLinesJoinTheRecord ==
    pc = "done" =>
        \A h \in DOMAIN lines :
            (LineKind(h) = "message" /\ h < Len(lines) /\ LineKind(h + 1) = "unmatched") =>
                /\ RecordOfLine(h) \in DOMAIN messages
                /\ messages[RecordOfLine(h)].message =
                       BodyWithContinuations(Classified[prog][lines[h]].record.message, h + 1)

\* C2: when no record survives parsing, the caller gets NoValidMessages and
\* never a summary; an upload endpoint answers with an error, not with 200.
C2_NoRecordsIsAnError ==
    (pc = "done" /\ messages = <<>>) =>
        /\ outcome.error
        /\ outcome.chat_data = Absent
        /\ prog \in {V1FlaskProg, FlaskProg} => outcome.http # 200

\* Format i of the list accepts the formatted string.
LayoutAccepts(i) == Strptime(NormalizeDateStr(formatted), Formats(prog)[i]).ok

\* The layout writes the year with two digits.
TwoDigitYearLayout(i) == \E k \in DOMAIN Formats(prog)[i] : Formats(prog)[i][k] = "%y"

\* C3 as stated: for every layout of the list and every instant, formatting
\* the instant with the layout and parsing the string gives the instant back.
C3_RoundTripEveryLayout ==
    rt_pc = "parsed" => (parsed.ok /\ parsed.ts = instant)

\* C3 as amended: the formatted string always parses, and it parses to the
\* instant when no layout earlier in the list accepts the string and, if the
\* layout writes a two-digit year, the year is one of 1969..2068.
C3_RoundTripUnlessEarlierLayoutFits ==
    rt_pc = "parsed" =>
        /\ parsed.ok
        /\ ( ( /\ \A i \in 1..(layout - 1) : ~LayoutAccepts(i)
               /\ TwoDigitYearLayout(layout) => instant.year \in 1969..2068 )
             => parsed.ts = instant )

\* C3 witness: 13 February 2023 written month-first with a two-digit year
\* (the fourth layout) has been parsed back to itself.
C3_MonthFirstLayoutRoundTrips ==
    /\ rt_pc = "parsed"
    /\ layout = 4
    /\ instant.year = 2023 /\ instant.month = 2 /\ instant.day = 13
    /\ \A i \in 1..3 : ~LayoutAccepts(i)
    /\ parsed.ok
    /\ parsed.ts = instant

RECURSIVE SumOfGaps(_, _)
\* The sum over i..Len(msgs) of timestamp[i] - timestamp[i-1], in minutes.
SumOfGaps(msgs, i) ==
    IF i > Len(msgs) THEN 0
    ELSE (MinuteOf(msgs[i].timestamp) - MinuteOf(msgs[i - 1].timestamp))
             + SumOfGaps(msgs, i + 1)

\* C4 as stated: with n >= 2 records the average response time is, in
\* seconds, the sum of the gaps between transcript-adjacent records divided
\* by n - 1; it is 0 when n < 2.
C4_AverageResponseInSeconds ==
    (pc = "done" /\ prog # FlaskProg /\ ~outcome.error) =>
        IF Len(messages) < 2 THEN outcome.response_time = Zero
        ELSE outcome.response_time.num * (Len(messages) - 1)
                 = outcome.response_time.den * 60 * SumOfGaps(messages, 2)

\* C4 as amended: with n >= 2 records the average response time is, in
\* minutes, the sum of the gaps between transcript-adjacent records (in
\* transcript order, negative gaps included) divided by n - 1; it is 0 when
\* n < 2.
C4_AverageResponseInMinutes ==
    (pc = "done" /\ prog # FlaskProg /\ ~outcome.error) =>
        IF Len(messages) < 2 THEN outcome.response_time = Zero
        ELSE outcome.response_time.num * (Len(messages) - 1)
                 = outcome.response_time.den * SumOfGaps(messages, 2)

\* C4 witness: records at minute offsets 0, 5 and 15 have been averaged to
\* 15/2 minutes.
C4_OffsetsGiveSevenAndAHalf ==
    /\ pc = "done"
    /\ prog # FlaskProg
    /\ lines = <<LineAliceLink, LineBobHi, LineAliceBad>>
    /\ Len(messages) = 3
    /\ outcome.response_time = [num |-> 15, den |-> 2]

\* The buckets as the intervals of the claim, polarity in hundredths.
InBucket(polarity, b) ==
    CASE b = "Too Negative" -> polarity <= -60
      [] b = "Negative" -> -60 < polarity /\ polarity <= -20
      [] b = "Neutral" -> -20 < polarity /\ polarity <= 20
      [] b = "Positive" -> 20 < polarity /\ polarity <= 60
      [] b = "Very Positive" -> 60 < polarity

\* C5: each polarity is counted in the bucket whose interval, with an
\* inclusive upper threshold, holds it: p <= -0.6 Too Negative,
\* -0.6 < p <= -0.2 Negative, -0.2 < p <= 0.2 Neutral, 0.2 < p <= 0.6
\* Positive, p > 0.6 Very Positive.
C5_CountsFollowInclusiveThresholds ==
    /\ \A b \in SentimentBuckets :
           sentiment_counts[b] =
               Cardinality({i \in DOMAIN polarities : InBucket(polarities[i], b)})
    /\ sentiment_result # Absent => sentiment_result.distribution = sentiment_counts

\* C5 witness: -0.2, 0.2 and 0.61 have been counted as Negative, Neutral
\* and Very Positive.
C5_BoundariesCounted ==
    /\ sentiment_result # Absent
    /\ polarities = <<-20, 20, 61>>
    /\ sentiment_result.distribution["Negative"] = 1
    /\ sentiment_result.distribution["Neutral"] = 1
    /\ sentiment_result.distribution["Very Positive"] = 1

\* The two example lines have been parsed.
ExampleParsed == pc = "done" /\ lines = <<LineAliceLink, LineBobHi>>

C7_SecondRunGivesTheSameSummary ==
    (phase = "replay" /\ pc = "done") => outcome = saved.outcome

\* C7 witness: a file with two messages and a link has been parsed again
\* with the same summary.
C7_ReplayedWithMessages ==
    /\ phase = "replay"
    /\ pc = "done"
    /\ Len(messages) >= 2
    /\ link_count >= 1
    /\ ~outcome.error
    /\ outcome = saved.outcome

\* C8: a header whose date fits no layout changes no accumulator and a
\* diagnostic naming the line is reported.
C8_UndatableHeaderIsReported ==
    [][(idx' = idx + 1 /\ Classified[prog][lines'[idx']].kind = "undatable") =>
          /\ UNCHANGED accumulators
          /\ Len(printed') = Len(printed) + 1
          /\ printed'[Len(printed')].line = Classified[prog][lines'[idx']].line]_vars

\* C9: every record has a parsed timestamp and a non-empty sender.
C9_RecordsHaveSenderAndTimestamp ==
    \A i \in DOMAIN messages :
        /\ messages[i].timestamp # Absent
        /\ messages[i].user # <<>>

\* C10: a line holding a system-notification phrase (the phrases of
\* WA_prog_senti_distribution.py: encryption, group creation and changes,
\* members added, removed or leaving, calls, deletion) changes no accumulator,
\* header-shaped or not.
C10_SystemLinesChangeNothing ==
    [][(idx' = idx + 1 /\ IsSystemMessage(SentiProg, Strip(lines'[idx']))) =>
          UNCHANGED accumulators]_vars

\* Line i is unmatched and no line before it made a record: no message is
\* in progress.
OrphanLine(i) ==
    LineKind(i) = "unmatched" /\ \A j \in 1..(i - 1) : LineKind(j) # "message"

\* The diagnostics that carry the content of an orphan line.
OrphanReports ==
    {k \in DOMAIN printed :
        \E i \in DOMAIN lines :
            OrphanLine(i) /\ printed[k].line = Classified[prog][lines[i]].line}

\* C12: every line that is neither a notification nor a header while no
\* message is in progress gives exactly one diagnostic carrying the line, and
\* there are as many such diagnostics as such lines.
C12_OrphanLinesAreReported ==
    pc = "done" =>
        /\ \A i \in DOMAIN lines :
               OrphanLine(i) =>
                   \E k \in DOMAIN printed :
                       printed[k].line = Classified[prog][lines[i]].line
        /\ Cardinality(OrphanReports) = Cardinality({i \in DOMAIN lines : OrphanLine(i)})

\* The position of the separator of a header: the first hyphen or en dash
\* that is followed by whitespace.
SeparatorOf(line) ==
    CHOOSE p \in DOMAIN line :
        /\ line[p] \in {"-", "U2013"} /\ IsSpace(At(line, p + 1))
        /\ \A q \in 1..(p - 1) : ~(line[q] \in {"-", "U2013"} /\ IsSpace(At(line, q + 1)))

\* The position of the first colon after the separator.
FirstColonOf(line) ==
    LET from == SeparatorOf(line) + 2
    IN  CHOOSE c \in from..Len(line) :
            /\ line[c] = ":"
            /\ \A q \in from..(c - 1) : line[q] # ":"

\* The position of the first colon after the separator that is followed by
\* whitespace.
FirstColonSpaceOf(line) ==
    LET from == SeparatorOf(line) + 2
    IN  CHOOSE c \in from..Len(line) :
            /\ line[c] = ":" /\ IsSpace(At(line, c + 1))
            /\ \A q \in from..(c - 1) : ~(line[q] = ":" /\ IsSpace(At(line, q + 1)))

\* The record made from line h has its sender ending before position c and its
\* body starting after the whitespace that follows c.
SplitsAt(h, c) ==
    LET line == Classified[prog][lines[h]].line
        r == messages[RecordOfLine(h)]
    IN  /\ r.user = SubSeq(line, SeparatorOf(line) + 2, c - 1)
        /\ r.message = SubSeq(line, c + 2, Len(line))

\* C13 as stated, of the line the loop has just consumed (records are only
\* ever appended): the sender of a record is the text between the separator
\* and the first colon after it, so it never holds a colon; the body is the
\* text after that colon.
C13_SenderEndsAtFirstColon ==
    (idx >= 1 /\ LineKind(idx) = "message") =>
        SplitsAt(idx, FirstColonOf(Classified[prog][lines[idx]].line))

\* C13 as amended, of the line the loop has just consumed: the sender of a
\* record is the text between the separator
\* and the first colon after it that is followed by whitespace; the body is
\* the text after that colon and its whitespace.
C13_SenderEndsAtFirstColonSpace ==
    (idx >= 1 /\ LineKind(idx) = "message") =>
        SplitsAt(idx, FirstColonSpaceOf(Classified[prog][lines[idx]].line))

\* C13 witness: the header with the sender field A:B has given a record of
\* sender A:B with the body "hi: yo".
C13_ColonSenderParsed ==
    /\ pc = "done"
    /\ \E i \in DOMAIN messages :
           /\ messages[i].user = <<"A", ":", "B">>
           /\ messages[i].message = <<"h", "i", ":", " ", "y", "o">>

\* The body holds http://, https:// or www.
HasUrlToken(body) ==
    \/ Contains(body, <<"h", "t", "t", "p", ":", "/", "/">>)
    \/ Contains(body, <<"h", "t", "t", "p", "s", ":", "/", "/">>)
    \/ Contains(body, <<"w", "w", "w", ".">>)

\* C14: link_count is the number of records whose body holds http://,
\* https:// or www.; a body with none of them, such as the bare word http,
\* adds nothing.
C14_LinkCountCountsUrlTokens ==
    link_count = Cardinality({i \in DOMAIN messages : HasUrlToken(messages[i].message)})

\* The lines of the corpus that are headers without a time whose date the
\* longest format list of the repository reads.
NoTimeHeaders ==
    {raw \in Corpus :
        /\ ~IsSystemMessage(SentiProg, Strip(raw))
        /\ Apply(LAMBDA m : m.ok /\ m.time = <<>>
                             /\ ParseDatetime(SentiProg, DateTimeString(m)).ok,
                 ChatPatternMatch(Strip(raw)))}

\* C17: a header with a valid date and no time gives a record at 00:00; it
\* is never dropped.
C17_MissingTimeIsMidnight ==
    [][(idx' = idx + 1 /\ lines'[idx'] \in NoTimeHeaders) =>
          /\ Len(messages') = Len(messages) + 1
          /\ messages'[Len(messages')].timestamp.hour = 0
          /\ messages'[Len(messages')].timestamp.minute = 0]_vars

\* C18: every record is counted once in each tally: the lengths of messages
\* and timestamps, the sums of user_message_count, of the daily frequency
\* and of the five sentiment buckets agree; users is the key set of
\* user_message_count, the keys of emoji_count are users, and link_count is
\* at most the number of records.
C18_TalliesAgree ==
    /\ Len(messages) = Len(timestamps)
    /\ SumValues(user_message_count) = Len(messages)
    /\ users = DOMAIN user_message_count
    /\ DOMAIN emojis_count \subseteq users
    /\ link_count <= Len(messages)
    /\ (pc = "done" /\ prog # FlaskProg /\ ~outcome.error) =>
           SumValues(outcome.daily_freq) = Len(messages)
    /\ (pc = "done" /\ prog = SentiProg /\ ~outcome.error) =>
           SumValues(outcome.sentiment.distribution) = Len(messages)

\* C18 witness: the script has summarised three records of two senders, one
\* of them with a link and an emoji, dated on two days.
C18_ThreeRecordsTallied ==
    /\ pc = "done"
    /\ prog = SentiProg
    /\ Len(messages) = 3
    /\ Cardinality(users) = 2
    /\ DOMAIN emojis_count # {}
    /\ link_count = 1
    /\ Cardinality(DOMAIN outcome.daily_freq) = 2
    /\ SumValues(outcome.sentiment.distribution) = 3

\* C11: a file with bytes that are not valid UTF-8 is still parsed: no
\* error reaches the caller because of them, and every line that is valid
\* UTF-8 and a header still gives its record.
C11_BadBytesAreReplaced ==
    pc = "done" =>
        /\ outcome # UnicodeDecodeError(prog)
        /\ \A i \in DOMAIN file :
               (DecodableLine(file[i]) /\ Classified[prog][file[i]].kind = "message") =>
                   \E j \in DOMAIN messages :
                       messages[j] = Classified[prog][file[i]].record

\* '%m/%d/%y, %I:%M %p', the layout WA_prog.py reads its timestamps with
TimestampFormat == <<"%m", "/", "%d", "/", "%y", ",", " ", "%I", ":", "%M", " ", "%p">>

\* The minute a timestamp string of identify_chat_participants stands for.
MinuteOfStamp(stamp) == MinuteOf(Strptime(stamp, TimestampFormat).ts)

\* The lines of the file that identify_chat_participants made a record of.
IdentifiedLines == {i \in DOMAIN lines : Identified[lines[i]].ok}

\* C15: the chat span is the minimum and the maximum timestamp of the
\* records, chat_start <= r.timestamp <= chat_end for every record r
\* whatever the order of the file, and it is absent when there is no record.
C15_ChatSpanIsMinMax ==
    (phase = "participants" /\ pc = "done") =>
        IF IdentifiedLines = {}
        THEN start_time = Absent /\ end_time = Absent
        ELSE \A i \in IdentifiedLines :
                 /\ MinuteOfStamp(start_time) <= MinuteOfStamp(Identified[lines[i]].timestamp)
                 /\ MinuteOfStamp(Identified[lines[i]].timestamp) <= MinuteOfStamp(end_time)

\* The body of an identified line: the text after the sender's colon,
\* without the date, the time and the sender name.
BodyOfLine(line) == Strip(SubSeq(line, Identified[line].end + 1, Len(line)))

RECURSIVE BodyLengthsOf(_, _)
\* The lengths of the bodies of sender's messages among the first n lines,
\* summed.
BodyLengthsOf(sender, n) ==
    IF n = 0 THEN 0
    ELSE BodyLengthsOf(sender, n - 1)
         + (IF Identified[lines[n]].ok /\ Identified[lines[n]].sender = sender
            THEN Len(BodyOfLine(lines[n])) ELSE 0)

RECURSIVE CharCountsOf(_)
\* The char_count of the senders in the set, summed.
CharCountsOf(senders) ==
    IF senders = {} THEN 0
    ELSE LET sender == CHOOSE x \in senders : TRUE
         IN  participants[sender].char_count + CharCountsOf(senders \ {sender})

\* C16: a sender's character count is the sum of the lengths of the bodies
\* of that sender's messages, the text after the sender's colon only, and
\* total_characters is the sum of the counts of all senders.
C16_CharacterCountIsBodyLength ==
    phase = "participants" =>
        /\ \A sender \in DOMAIN participants :
               participants[sender].char_count = BodyLengthsOf(sender, Len(lines))
        /\ total_characters = CharCountsOf(DOMAIN participants)

\* C19: whatever the interleaving of concurrent uploads, also of uploads
\* with the same client filename, the parser of each request reads a file
\* that holds exactly what the request uploaded, and the response is the one
\* the request gets when it runs alone.
C19_UploadsAreIsolated ==
    \A r \in DOMAIN reqs :
        (reqs[r].pc = "done" /\ reqs[r].has_file /\ reqs[r].filename # "") =>
            /\ reqs[r].read = reqs[r].content
            /\ reqs[r].response = UploadResponse(prog, reqs[r].content)

=============================================================================
